---- MODULE Spec2Model ----
(***************************************************************************)
(* A model of post_filter.py: the text cleaning rules (seq_clean and the   *)
(* regular expressions it applies), the segmentation of dialogs into runs  *)
(* of valid utterances and the fragment generation (single_func), and the  *)
(* walk / worker pool of main.                                             *)
(*                                                                         *)
(* A Python str is a sequence of characters; a character is a TLA+ string. *)
(* ASCII characters stand for themselves.  The non-ASCII characters of the *)
(* source are named: "ni" "ma" (U+5C3C U+739B), "tu" "pian" (U+56FE        *)
(* U+7247), "wo" "ca" (U+6211 U+64E6), "xian" "shi" "quan" "bu" (U+663E    *)
(* U+793A U+5168 U+90E8), "ellipsis" (U+2026), "FWL" "FWR" (the full-width *)
(* square brackets U+FF3B U+FF3D).                                         *)
(***************************************************************************)
EXTENDS Integers, Sequences, FiniteSets, TLC

(***************************************************************************)
(* Characters and character classes                                        *)
(***************************************************************************)
Letters ==
  {"a","b","c","d","e","f","g","h","i","j","k","l","m","n","o","p","q","r",
   "s","t","u","v","w","x","y","z",
   "A","B","C","D","E","F","G","H","I","J","K","L","M","N","O","P","Q","R",
   "S","T","U","V","W","X","Y","Z"}

\* [a-zA-Z]
IsAlpha(c) == c \in Letters

\* \s, and what str.strip() removes (a line read by readlines() holds no
\* line break inside, so the line breaks of \s do not occur)
Whitespace == {" ", "\t"}

IsSpace(c) == c \in Whitespace

\* [:\s]
ColonOrSpace == {":"} \cup Whitespace

IsColonOrSpace(c) == c \in ColonOrSpace

(***************************************************************************)
(* str primitives                                                          *)
(***************************************************************************)
\* s[i:i+len(p)] == p   (i is 1-based)
StartsAt(s, i, p) ==
  /\ i >= 1
  /\ i + Len(p) - 1 <= Len(s)
  /\ (Len(p) > 0 => s[i] = p[1])
  /\ \A k \in 2..Len(p) : s[i + k - 1] = p[k]

\* p in s
Contains(s, p) == \E i \in 1..(Len(s) - Len(p) + 1) : StartsAt(s, i, p)

\* s.endswith(p)
EndsWith(s, p) == Len(p) <= Len(s) /\ StartsAt(s, Len(s) - Len(p) + 1, p)

\* the suffix s[i..]
Tail_(s, i) == SubSeq(s, i, Len(s))

\* the least j >= i among the positions `at` of s, Len(s) + 1 when there is
\* none: where a left-to-right scan from i finds its first match, `at` being
\* the positions a match can start at
FirstFrom(s, i, at) ==
  IF \E j \in i..Len(s) : j \in at
  THEN CHOOSE j \in i..Len(s) : j \in at /\ \A k \in i..(j-1) : k \notin at
  ELSE Len(s) + 1

\* the occurrences of p in s
Occurrences(s, p) == {k \in 1..Len(s) : StartsAt(s, k, p)}

\* the number of characters from position i on that are of the class, up to
\* the first that is not
RunLen(s, i, class) ==
  IF i > Len(s) THEN 0
  ELSE FirstFrom(s, i, {j \in 1..Len(s) : s[j] \notin class}) - i

RunOfChar(s, i, c) == RunLen(s, i, {c})

\* s.replace(old, new) for a non-empty old: the non-overlapping occurrences,
\* left to right
RECURSIVE ReplaceFrom(_, _, _, _)
\* the scan is at i and its next occurrence of old is at j
ReplaceAt(s, i, j, old, new) ==
  IF j > Len(s) THEN Tail_(s, i)
  ELSE SubSeq(s, i, j - 1) \o new \o ReplaceFrom(s, j + Len(old), old, new)

ReplaceFrom(s, i, old, new) ==
  ReplaceAt(s, i, FirstFrom(s, i, Occurrences(s, old)), old, new)

Replace(s, old, new) == ReplaceFrom(s, 1, old, new)

\* s.rfind(c) as a 1-based index, 0 when c does not occur (Python: -1)
RFind(s, c) ==
  IF \E i \in 1..Len(s) : s[i] = c
  THEN CHOOSE i \in 1..Len(s) : s[i] = c /\ \A k \in (i+1)..Len(s) : s[k] # c
  ELSE 0

\* s.strip()
Strip(s) ==
  IF \A i \in 1..Len(s) : IsSpace(s[i]) THEN <<>>
  ELSE LET a == 1 + RunLen(s, 1, Whitespace)
           \* m: the number of whitespace characters at the end
           m == CHOOSE m \in 0..(Len(s) - 1) :
                  ~IsSpace(s[Len(s) - m]) /\ \A k \in 0..(m-1) : IsSpace(s[Len(s) - k])
       IN  SubSeq(s, a, Len(s) - m)

\* s.split(sep) for a non-empty sep: always at least one piece
RECURSIVE SplitFrom(_, _, _)
\* the scan is at i and its next occurrence of sep is at j
SplitAt(s, i, j, sep) ==
  IF j > Len(s) THEN <<Tail_(s, i)>>
  ELSE <<SubSeq(s, i, j - 1)>> \o SplitFrom(s, j + Len(sep), sep)

SplitFrom(s, i, sep) ==
  SplitAt(s, i, FirstFrom(s, i, Occurrences(s, sep)), sep)

Split(s, sep) == SplitFrom(s, 1, sep)

\* sep.join(parts)
RECURSIVE Join(_, _)
Join(sep, parts) ==
  IF Len(parts) = 0 THEN <<>>
  ELSE IF Len(parts) = 1 THEN parts[1]
  ELSE parts[1] \o sep \o Join(sep, Tail(parts))

\* n copies of the character c
Rep(c, n) == [k \in 1..n |-> c]

(***************************************************************************)
(* The literals of the source                                              *)
(***************************************************************************)
SEP     == <<"\t", "\t">>                      \* "\t\t"
HTTP    == <<"h", "t", "t", "p">>              \* "http"
NIMA    == <<"ni", "ma">>
WOCA    == <<"wo", "ca">>
IMG     == <<"[", "tu", "pian", "]">>
IMG_FW  == <<"FWL", "tu", "pian", "FWR">>
SHOWALL == <<"xian", "shi", "quan", "bu">>
DOT_TXT == <<".", "t", "x", "t">>              \* ".txt"
ZHIHU   == <<"z", "h", "i", "h", "u">>
WEIBO_TANG   == <<"w", "e", "i", "b", "o", "_", "t", "a", "n", "g">>
WEIBO_SUNHAO == <<"w", "e", "i", "b", "o", "_", "s", "u", "n", "h", "a", "o">>

tail_length == 30
AT_NONSPACE_MAX == 30
COLON_MIN == 4
min_length == 5
max_length == 200
PoolSize == 16

(***************************************************************************)
(* contain_at                                                              *)
(***************************************************************************)
\* re.search(r"(@+)\S{,30} ", seq): some '@' at i and some space at j > i
\* with only non-whitespace between them, of which all but a leading run of
\* '@' are at most 30
AtRegexSearch(seq) ==
  \E i \in 1..Len(seq) :
    /\ seq[i] = "@"
    /\ \E j \in (i+1)..Len(seq) :
         /\ seq[j] = " "
         /\ \A k \in (i+1)..(j-1) : ~IsSpace(seq[k])
         /\ (j - 1 - i) - RunOfChar(seq, i + 1, "@") <= AT_NONSPACE_MAX

contain_at(seq) ==
  IF AtRegexSearch(seq) THEN TRUE
  ELSE LET r_at_idx == RFind(seq, "@")
       IN  r_at_idx > 0 /\ Len(Tail_(seq, r_at_idx)) < tail_length

(***************************************************************************)
(* The regular expressions' sub("", .)                                     *)
(***************************************************************************)
\* TM_REGEX = ([^a-zA-Z])(tm)([^a-zA-Z]), re.I
TmMatchAt(s, i) ==
  /\ i + 3 <= Len(s)
  /\ ~IsAlpha(s[i])
  /\ s[i+1] \in {"t", "T"}
  /\ s[i+2] \in {"m", "M"}
  /\ ~IsAlpha(s[i+3])

\* TM_REGEX.sub(lambda m: m.group(1) + m.group(3), s): the matches are the
\* non-overlapping ones found left to right
RECURSIVE TmSubFrom(_, _)
\* the scan is at i and its next match is at j
TmSubAt(s, i, j) ==
  IF j > Len(s) THEN Tail_(s, i)
  ELSE SubSeq(s, i, j) \o <<s[j+3]>> \o TmSubFrom(s, j + 4)

TmSubFrom(s, i) == TmSubAt(s, i, FirstFrom(s, i, {k \in 1..Len(s) : TmMatchAt(s, k)}))

TM_REGEX_sub(s) == TmSubFrom(s, 1)

\* BRACKETS_REGEX = \[.*?\] *  (and BRACKETS_REGEX2 with the full-width
\* brackets): from an opening bracket to the first closing one after it, and
\* the spaces that follow
RECURSIVE BracketSubFrom(_, _, _, _)
\* the scan is at i, its next match opens at j and closes at e
BracketSubAt(s, i, j, e, open, close) ==
  IF j > Len(s) THEN Tail_(s, i)
  ELSE SubSeq(s, i, j - 1)
         \o BracketSubFrom(s, e + 1 + RunOfChar(s, e + 1, " "), open, close)

BracketOpensAt(s, i, open, close) ==
  FirstFrom(s, i, {k \in 1..Len(s) : s[k] = open /\ \E e \in (k+1)..Len(s) : s[e] = close})

BracketClosesAt(s, j, close) == FirstFrom(s, j + 1, {k \in 1..Len(s) : s[k] = close})

BracketSubFrom(s, i, open, close) ==
  BracketSubAt(s, i, BracketOpensAt(s, i, open, close),
               BracketClosesAt(s, BracketOpensAt(s, i, open, close), close),
               open, close)

BRACKETS_REGEX_sub(s) == BracketSubFrom(s, 1, "[", "]")

BRACKETS_REGEX2_sub(s) == BracketSubFrom(s, 1, "FWL", "FWR")

\* COLON_REGEX = [:\s]{4,}: a match starts where COLON_MIN characters of the
\* class follow one another and takes the whole run
ColonMatchAt(s, i) ==
  /\ i + COLON_MIN - 1 <= Len(s)
  /\ \A k \in 0..(COLON_MIN - 1) : IsColonOrSpace(s[i + k])

RECURSIVE ColonSubFrom(_, _)
\* the scan is at i and its next match is at j
ColonSubAt(s, i, j) ==
  IF j > Len(s) THEN Tail_(s, i)
  ELSE SubSeq(s, i, j - 1) \o ColonSubFrom(s, j + RunLen(s, j, ColonOrSpace))

ColonSubFrom(s, i) ==
  ColonSubAt(s, i, FirstFrom(s, i, {k \in 1..Len(s) : ColonMatchAt(s, k)}))

COLON_REGEX_sub(s) == ColonSubFrom(s, 1)

\* pat = (ellipsis)* *(SHOWALL)\s*  in seq_clean, data_type "zhihu": the
\* length of the match that starts at i, 0 when none does
\* n characters from i on are matched and SHOWALL has to follow
ZhihuMatchEnd(s, i, n) ==
  IF StartsAt(s, i + n, SHOWALL)
  THEN n + Len(SHOWALL) + RunLen(s, i + n + Len(SHOWALL), Whitespace)
  ELSE 0

\* a ellipses from i on are matched
ZhihuMatchSpaces(s, i, a) == ZhihuMatchEnd(s, i, a + RunOfChar(s, i + a, " "))

ZhihuMatchLen(s, i) == ZhihuMatchSpaces(s, i, RunOfChar(s, i, "ellipsis"))

RECURSIVE ZhihuSubFrom(_, _)
\* the scan is at i and its next match is at j
ZhihuSubAt(s, i, j) ==
  IF j > Len(s) THEN Tail_(s, i)
  ELSE SubSeq(s, i, j - 1) \o ZhihuSubFrom(s, j + ZhihuMatchLen(s, j))

ZhihuSubFrom(s, i) ==
  ZhihuSubAt(s, i, FirstFrom(s, i, {k \in 1..Len(s) : ZhihuMatchLen(s, k) > 0}))

zhihu_pat_sub(s) == ZhihuSubFrom(s, 1)

(***************************************************************************)
(* seq_clean                                                               *)
(***************************************************************************)
DataTypes == {"zhihu", "weibo_tang", "none"}

\* lines 242-250
CleanByType(seq, data_type) ==
  IF data_type = "zhihu" THEN zhihu_pat_sub(seq)
  ELSE IF data_type = "weibo_tang" THEN BRACKETS_REGEX2_sub(BRACKETS_REGEX_sub(seq))
  ELSE seq

\* lines 252-253
EmptyIfAt(seq) == IF contain_at(seq) THEN <<>> ELSE seq

\* lines 255-256
EmptyIfNima(seq) == IF Contains(seq, NIMA) THEN <<>> ELSE seq

\* lines 260-262
RemoveLiterals(seq) == Replace(Replace(Replace(seq, IMG, <<>>), IMG_FW, <<>>), WOCA, <<>>)

seq_clean(seq, data_type) ==
  TM_REGEX_sub(
    RemoveLiterals(
      COLON_REGEX_sub(
        EmptyIfNima(
          EmptyIfAt(
            CleanByType(seq, data_type))))))

(***************************************************************************)
(* Files.  A file's content is its text, a str; "\n" ends a line.          *)
(***************************************************************************)
NL == <<"\n">>

\* load_txt: the stripped lines of the file that are not empty.  readlines()
\* cuts the text after each "\n"; the "\n" it leaves at the end of a line and
\* the empty piece after a final "\n" go with strip() and the len > 0 filter.
StripAll(lines) == [i \in 1..Len(lines) |-> Strip(lines[i])]

load_txt(text) == SelectSeq(StripAll(Split(text, NL)), LAMBDA l : Len(l) > 0)

\* what save_txt is given: "\n".join(data)
JoinLines(data) == Join(NL, data)

(***************************************************************************)
(* single_func                                                             *)
(*                                                                         *)
(* An utterance kept in new_dialog is a record: seq is the str the code    *)
(* keeps, pos = <<d, k>> is history the code does not keep (the utterance  *)
(* is the k-th of the d-th loaded dialog).  The loop's state st carries    *)
(* new_data and new_dialog, and as history `seen`: every utterance the     *)
(* loop has measured so far, as it was measured.                           *)
(***************************************************************************)
\* lines 300-305
data_type_of(path) ==
  IF Contains(path, ZHIHU) THEN "zhihu"
  ELSE IF Contains(path, WEIBO_TANG) \/ Contains(path, WEIBO_SUNHAO) THEN "weibo_tang"
  ELSE "none"

\* lines 297-306: the utterance as it is measured
CleanIf(nosp, path, extra_func) ==
  IF extra_func THEN seq_clean(nosp, data_type_of(path)) ELSE nosp

Cleaned(seq, path, extra_func) ==
  CleanIf(Replace(seq, <<" ">>, <<>>), path, extra_func)

\* line 310 without its `length < 1`
InvalidAllowsEmpty(seq) ==
  LET length == Len(seq)
  IN  length > max_length \/ Contains(seq, HTTP)

\* line 310
Invalid(seq) ==
  LET length == Len(seq)
  IN  length > max_length \/ length < 1 \/ Contains(seq, HTTP)

\* lines 312, 320: new_dialog is added to new_data when it holds more than
\* one utterance
Flush(new_data, new_dialog) ==
  IF Len(new_dialog) > 1 THEN Append(new_data, new_dialog) ELSE new_data

\* lines 295-318 without line 316, `new_dialog = []`
SeqStepNoReset(st, seq, pos) ==
  IF Invalid(seq)
  THEN [new_data |-> Flush(st.new_data, st.new_dialog), new_dialog |-> st.new_dialog,
        seen |-> Append(st.seen, [seq |-> seq, pos |-> pos])]
  ELSE [new_data |-> st.new_data,
        new_dialog |-> Append(st.new_dialog, [seq |-> seq, pos |-> pos]),
        seen |-> Append(st.seen, [seq |-> seq, pos |-> pos])]

\* lines 295-318, one turn of `for seq in dialog`
SeqStep(st, seq, pos) ==
  IF Invalid(seq)
  THEN [new_data |-> Flush(st.new_data, st.new_dialog), new_dialog |-> <<>>,
        seen |-> Append(st.seen, [seq |-> seq, pos |-> pos])]
  ELSE [new_data |-> st.new_data,
        new_dialog |-> Append(st.new_dialog, [seq |-> seq, pos |-> pos]),
        seen |-> Append(st.seen, [seq |-> seq, pos |-> pos])]

RECURSIVE SeqLoop(_, _, _, _, _, _)
SeqLoop(st, dialog, d, k, path, extra_func) ==
  IF k > Len(dialog) THEN st
  ELSE SeqLoop(SeqStep(st, Cleaned(dialog[k], path, extra_func), <<d, k>>),
               dialog, d, k + 1, path, extra_func)

\* lines 291-323, one turn of `for dialog in data`
DialogEnd(st) == [new_data |-> Flush(st.new_data, st.new_dialog), seen |-> st.seen]

DialogStep(acc, dialog, d, path, extra_func) ==
  DialogEnd(SeqLoop([new_data |-> acc.new_data, new_dialog |-> <<>>, seen |-> acc.seen],
                    dialog, d, 1, path, extra_func))

RECURSIVE DialogLoop(_, _, _, _, _)
DialogLoop(acc, data, d, path, extra_func) ==
  IF d > Len(data) THEN acc
  ELSE DialogLoop(DialogStep(acc, data[d], d, path, extra_func),
                  data, d + 1, path, extra_func)

\* lines 287-323: new_data before the fragments are generated
\* line 289
SplitAll(data) == [i \in 1..Len(data) |-> Split(data[i], SEP)]

Segment(text, path, extra_func) ==
  DialogLoop([new_data |-> <<>>, seen |-> <<>>], SplitAll(load_txt(text)), 1,
             path, extra_func)

\* line 326, the fragment of run x that ends at its j-th utterance (Python's
\* x[:j + 1] for the 0-based j - 1)
Fragment(x, j) ==
  [line |-> Join(SEP, [i \in 1..j |-> x[i].seq]),
   src  |-> [i \in 1..j |-> x[i].pos]]

\* line 326 with `>` for `>=`
FragmentKeptStrict(x, j) == Len(x[j].seq) > min_length

\* line 326, the condition of the comprehension
FragmentKept(x, j) == Len(x[j].seq) >= min_length

\* line 326, `for j in range(1, len(x))`
RECURSIVE RunFragments(_, _)
RunFragments(x, j) ==
  IF j > Len(x) THEN <<>>
  ELSE (IF FragmentKept(x, j) THEN <<Fragment(x, j)>> ELSE <<>>)
         \o RunFragments(x, j + 1)

\* line 326, `for x in new_data`
RECURSIVE Fragments(_, _)
Fragments(new_data, r) ==
  IF r > Len(new_data) THEN <<>>
  ELSE RunFragments(new_data[r], 2) \o Fragments(new_data, r + 1)

\* lines 282-327, without the exception: what single_func computes from the
\* text of its input file
Saved(seg, frags) ==
  [new_data |-> seg.new_data,
   seen |-> seg.seen,
   out |-> JoinLines([i \in 1..Len(frags) |-> frags[i].line]),
   src |-> [i \in 1..Len(frags) |-> frags[i].src]]

Generate(seg) == Saved(seg, Fragments(seg.new_data, 1))

single_func(text, path, extra_func) == Generate(Segment(text, path, extra_func))

(***************************************************************************)
(* State                                                                   *)
(***************************************************************************)
VARIABLES
  c_seq, c_type, c_out, c_pc,       \* one call of seq_clean
  f_text, f_path, f_extra,          \* one call of single_func: the input
                                    \* file's text, path and extra_func
  f_new_data, f_out, f_pc,          \* new_data before line 326 and the text
                                    \* given to save_txt
  f_seen, f_src,                    \* history: the utterances as measured,
                                    \* and the positions of each output
                                    \* line's utterances
  m_indir, m_outdir, m_extra,       \* main's arguments
  fs,                               \* the file system: path -> text
  unreadable,                       \* the paths open() raises on
  m_pc, paths, outpaths, m_next,    \* main: its position, lines 336-340's
                                    \* lists, the loop's index into them
  tasks,                            \* the pool's tasks, as submitted
  fs0, writes                       \* history: the file system main found,
                                    \* and the save_txt calls made

c_vars == <<c_seq, c_type, c_out, c_pc>>
f_vars == <<f_text, f_path, f_extra, f_new_data, f_out, f_pc, f_seen, f_src>>
m_vars == <<m_indir, m_outdir, m_extra, fs, unreadable, m_pc, paths, outpaths,
            m_next, tasks, fs0, writes>>
vars == <<c_vars, f_vars, m_vars>>

(***************************************************************************)
(* Inputs                                                                  *)
(***************************************************************************)
MaxCleanLen == 7
MaxTokens == 5
MaxFragTokens == 6
MaxAtTokens == 3
MaxSegTokens == 3

\* the sequences over S of length at most n
SeqsUpTo(S, n) == UNION {[1..k -> S] : k \in 0..n}

\* A file's text from its tokens: a token is an utterance or NL; utterances
\* that follow one another on a line have "\t\t" between them
RECURSIVE TextOf(_, _)
TextOf(toks, k) ==
  IF k > Len(toks) THEN <<>>
  ELSE toks[k]
         \o (IF toks[k] # NL /\ k < Len(toks) /\ toks[k+1] # NL THEN SEP ELSE <<>>)
         \o TextOf(toks, k + 1)

PathPlain == <<"a", "/", "x", ".", "t", "x", "t">>
PathZhihu == ZHIHU \o <<"/", "x", ".", "t", "x", "t">>
PathWeibo == WEIBO_TANG \o <<"/", "x", ".", "t", "x", "t">>

\* utterances that decide validity: too short for a last utterance, exactly
\* min_length after the space is removed, empty after the space is removed,
\* holding "http", longer than max_length, exactly max_length after the
\* space is removed, and one that only seq_clean empties
SegPalette ==
  { <<"a">>, <<"a", " ", "b", "c", "d", "e">>, <<" ">>, HTTP,
    Rep("a", max_length + 1), <<" ">> \o Rep("a", max_length), NIMA }

\* utterances that decide which fragments are written
FragPalette == { <<"a">>, <<"a", "b", "c", "d">>, <<"a", "b", "c", "d", "e">>, <<>> }

\* utterances seq_clean acts on
ExtraPalette == { <<"a", "b", "c", "d", "e">>, <<"@", "a">>, NIMA, SHOWALL }

\* utterances with '@': one with a short tail, one with tail_length
\* characters from the '@' on
AtPalette ==
  { <<"a", "b", "c", "d", "e">>, <<"@", "a">>, <<"@">> \o Rep("a", tail_length - 1) }

CleanAlphabet == {"1", "t", "m", "a"}

(***************************************************************************)
(* Actions                                                                 *)
(***************************************************************************)
c_idle == c_seq = <<>> /\ c_type = "none" /\ c_out = <<>> /\ c_pc = "idle"
f_idle ==
  /\ f_text = <<>> /\ f_path = <<>> /\ f_extra = FALSE
  /\ f_new_data = <<>> /\ f_out = <<>> /\ f_pc = "idle"
  /\ f_seen = <<>> /\ f_src = <<>>
m_idle ==
  /\ m_indir = <<>> /\ m_outdir = <<>> /\ m_extra = FALSE
  /\ fs = <<>> /\ unreadable = {} /\ m_pc = "idle"
  /\ paths = <<>> /\ outpaths = <<>> /\ m_next = 0
  /\ tasks = <<>> /\ fs0 = <<>> /\ writes = <<>>

\* seq_clean(c_seq, c_type)
CleanCall ==
  /\ c_pc = "call"
  /\ c_out' = seq_clean(c_seq, c_type)
  /\ c_pc' = "return"
  /\ UNCHANGED <<c_seq, c_type, f_vars, m_vars>>

CleanInit ==
  /\ c_seq \in SeqsUpTo(CleanAlphabet, MaxCleanLen)
  /\ c_type \in DataTypes
  /\ c_out = <<>>
  /\ c_pc = "call"
  /\ f_idle /\ m_idle

SpecClean == CleanInit /\ [][CleanCall]_vars

\* single_func(f_path, outpath, f_extra) on a file that loads
Returns(r) ==
  /\ f_new_data' = r.new_data
  /\ f_out' = r.out
  /\ f_seen' = r.seen
  /\ f_src' = r.src

SingleFuncCall ==
  /\ f_pc = "call"
  /\ Returns(single_func(f_text, f_path, f_extra))
  /\ f_pc' = "over"
  /\ UNCHANGED <<f_text, f_path, f_extra, c_vars, m_vars>>

FilterInit(palette, n, pathset, extras) ==
  /\ \E toks \in SeqsUpTo(palette \cup {NL}, n) : f_text = TextOf(toks, 1)
  /\ f_path \in pathset
  /\ f_extra \in extras
  /\ f_new_data = <<>> /\ f_out = <<>> /\ f_seen = <<>> /\ f_src = <<>>
  /\ f_pc = "call"
  /\ c_idle /\ m_idle

SegInit == FilterInit(SegPalette, MaxSegTokens, {PathPlain}, BOOLEAN)
SpecSegment == SegInit /\ [][SingleFuncCall]_vars

FragInit == FilterInit(FragPalette, MaxFragTokens, {PathPlain}, {FALSE})
SpecFragment == FragInit /\ [][SingleFuncCall]_vars

ExtraInit == FilterInit(ExtraPalette, MaxTokens, {PathPlain, PathZhihu}, {TRUE})
SpecExtra == ExtraInit /\ [][SingleFuncCall]_vars

AtInit == FilterInit(AtPalette, MaxAtTokens, {PathPlain, PathZhihu, PathWeibo}, {TRUE})
SpecAt == AtInit /\ [][SingleFuncCall]_vars

(***************************************************************************)
(* main and its pool                                                       *)
(*                                                                         *)
(* A path is a str with "/" between its components.  The file system maps  *)
(* the path of every file to its text; a directory is there when a file is *)
(* below it, and the directories main makes for the output (lines 353-355) *)
(* are not kept.                                                           *)
(***************************************************************************)
MaxFiles == 3

SLASH == <<"/">>

\* os.path.join(dir, name), for a dir that does not end with "/"
PathJoin(dir, name) == dir \o SLASH \o name

IsUnder(p, dir) == StartsAt(p, 1, dir \o SLASH)

\* os.path.dirname(p) and os.path.basename(p) of a path that holds a "/"
DirName(p) == SubSeq(p, 1, RFind(p, "/") - 1)
BaseName(p) == Tail_(p, RFind(p, "/") + 1)

\* the directories above the file p
AncestorDirs(p) == {SubSeq(p, 1, i - 1) : i \in {i \in 1..Len(p) : p[i] = "/"}}

\* os.walk(top): the directories it visits, top and every directory below it
WalkDirs(top) ==
  {top} \cup {d \in UNION {AncestorDirs(p) : p \in DOMAIN fs} : IsUnder(d, top)}

\* the filenames os.walk gives for directory d (instance[-1])
FileNames(d) == {BaseName(p) : p \in {q \in DOMAIN fs : DirName(q) = d}}

\* lines 336-338, as a set
WalkPaths(top) ==
  UNION {{PathJoin(d, file) : file \in {f \in FileNames(d) : EndsWith(f, DOT_TXT)}} :
         d \in WalkDirs(top)}

\* os.walk is top-down: the files of a directory come before those of the
\* directories below it, and a directory's subtree is walked in one piece;
\* the order among the entries of one directory is the file system's
WalkOrder(s, top) ==
  \A d \in WalkDirs(top) :
    LET inside == {i \in 1..Len(s) : DirName(s[i]) = d \/ IsUnder(s[i], d)}
        direct == {i \in 1..Len(s) : DirName(s[i]) = d}
    IN  /\ \A i, j \in inside : \A k \in i..j : k \in inside
        /\ \A i \in direct : \A j \in inside \ direct : i < j

\* line 340
OutPath(path, indir, outdir) == Replace(path, indir, outdir)

InputDirs == { <<"a">> }
OutputDirs == { <<"b">>, <<"o">> }

\* the files there may be below indir, relative to it
CandidateFiles ==
  { <<"x", ".", "t", "x", "t">>,
    <<"x", ".", "m", "d">>,
    <<"a", "/", "x", ".", "t", "x", "t">>,
    <<"b", "/", "x", ".", "t", "x", "t">>,
    <<"b", "/", "o", "/", "x", ".", "t", "x", "t">> }

\* what a file may hold: one dialog, or two of which seq_clean empties an
\* utterance
TextPalette ==
  { <<"a", "\t", "\t", "a", "b", "c", "d", "e">>,
    <<"@", "a", "\t", "\t", "a", "b", "c", "d", "e", "\n",
      "a", "b", "c", "d", "e", "\t", "\t", "a", "b", "c", "d", "e">> }

\* the text single_func gives to save_txt for every file there may be,
\* computed once
Saved_txt ==
  [text \in TextPalette,
   path \in {PathJoin(d, r) : d \in InputDirs, r \in CandidateFiles},
   extra_func \in BOOLEAN |-> single_func(text, path, extra_func).out]

MainInit ==
  /\ m_indir \in InputDirs
  /\ m_outdir \in OutputDirs
  /\ m_extra = TRUE                 \* line 366: main(..., True)
  /\ \E rels \in SUBSET CandidateFiles :
       /\ Cardinality(rels) <= MaxFiles
       /\ fs \in [{PathJoin(m_indir, r) : r \in rels} -> TextPalette]
  /\ unreadable \in SUBSET {q \in DOMAIN fs : EndsWith(q, DOT_TXT)}
  /\ fs0 = fs
  /\ m_pc = "walk"
  /\ paths = <<>> /\ outpaths = <<>> /\ m_next = 0
  /\ tasks = <<>> /\ writes = <<>>
  /\ c_idle /\ f_idle

\* lines 336-351: the lists of paths, the pool, "start"
MainWalk ==
  /\ m_pc = "walk"
  /\ \E s \in [1..Cardinality(WalkPaths(m_indir)) -> WalkPaths(m_indir)] :
       /\ \A i, j \in 1..Len(s) : i # j => s[i] # s[j]
       /\ WalkOrder(s, m_indir)
       /\ paths' = s
       /\ outpaths' = [i \in 1..Len(s) |-> OutPath(s[i], m_indir, m_outdir)]
  /\ m_next' = 1
  /\ m_pc' = "submit"
  /\ UNCHANGED <<m_indir, m_outdir, m_extra, fs, unreadable, tasks, fs0, writes,
                 c_vars, f_vars>>

\* lines 352-357, one turn of the loop: apply_async(single_func, ...)
NewTask(path, outpath, extra_func) ==
  [path |-> path, outpath |-> outpath, extra_func |-> extra_func,
   st |-> "queued", data |-> <<>>, calls |-> 0]

MainSubmit ==
  /\ m_pc = "submit"
  /\ m_next <= Len(paths)
  /\ tasks' = Append(tasks, NewTask(paths[m_next], outpaths[m_next], m_extra))
  /\ m_next' = m_next + 1
  /\ UNCHANGED <<m_indir, m_outdir, m_extra, fs, unreadable, m_pc, paths, outpaths,
                 fs0, writes, c_vars, f_vars>>

\* lines 358-359: the loop is over, p.close()
MainClose ==
  /\ m_pc = "submit"
  /\ m_next > Len(paths)
  /\ m_pc' = "join"
  /\ UNCHANGED <<m_indir, m_outdir, m_extra, fs, unreadable, paths, outpaths, m_next,
                 tasks, fs0, writes, c_vars, f_vars>>

Finished(task) == task.st \in {"done", "error"}

\* a join that does not wait for the tasks
JoinReturnsAtOnce == TRUE

\* lines 360-361: p.join() returns when every task has returned; "over"
JoinReturns == \A t \in 1..Len(tasks) : Finished(tasks[t])

MainJoin ==
  /\ m_pc = "join"
  /\ JoinReturns
  /\ m_pc' = "over"
  /\ UNCHANGED <<m_indir, m_outdir, m_extra, fs, unreadable, paths, outpaths, m_next,
                 tasks, fs0, writes, c_vars, f_vars>>

Running == {t \in 1..Len(tasks) : tasks[t].st = "loaded"}

\* single_func, lines 280-287 and 329-331: a worker takes the task and loads
\* the file; when open() raises, the exception is caught, "error!!!!" is
\* printed and single_func returns
LoadFails(task) ==
  [task EXCEPT !.st = "error", !.calls = @ + 1]

TaskLoad(t) ==
  /\ t \in 1..Len(tasks)
  /\ tasks[t].st = "queued"
  /\ Cardinality(Running) < PoolSize
  /\ IF tasks[t].path \in unreadable \/ tasks[t].path \notin DOMAIN fs
     THEN tasks' = [tasks EXCEPT ![t] = LoadFails(tasks[t])]
     ELSE tasks' = [tasks EXCEPT ![t].st = "loaded",
                                 ![t].data = fs[tasks[t].path],
                                 ![t].calls = @ + 1]
  /\ UNCHANGED <<m_indir, m_outdir, m_extra, fs, unreadable, m_pc, paths, outpaths,
                 m_next, fs0, writes, c_vars, f_vars>>

\* single_func, lines 289-328: the fragments of the loaded text are saved to
\* outpath, "over" is printed and single_func returns
TaskSave(t) ==
  /\ t \in 1..Len(tasks)
  /\ tasks[t].st = "loaded"
  /\ LET task == tasks[t]
         out == Saved_txt[task.data, task.path, task.extra_func]
     IN  /\ fs' = [q \in DOMAIN fs \cup {task.outpath} |->
                     IF q = task.outpath THEN out ELSE fs[q]]
         /\ writes' = Append(writes, [task |-> t, path |-> task.outpath])
  /\ tasks' = [tasks EXCEPT ![t].st = "done"]
  /\ UNCHANGED <<m_indir, m_outdir, m_extra, unreadable, m_pc, paths, outpaths,
                 m_next, fs0, c_vars, f_vars>>

Main == MainWalk \/ MainSubmit \/ MainClose \/ MainJoin

Worker == \E t \in 1..MaxFiles : TaskLoad(t) \/ TaskSave(t)

Next == Main \/ Worker

Spec == MainInit /\ [][Next]_vars

\* the operating system lets main run when it can, and the pool's workers
\* when there is a task one of them can take or finish
Fairness == WF_vars(Main) /\ WF_vars(Worker)

SpecFair == Spec /\ Fairness

(***************************************************************************)
(* Properties of single_func and seq_clean                                 *)
(***************************************************************************)
\* the lines of the text given to save_txt
OutLines == IF f_out = <<>> THEN <<>> ELSE Split(f_out, NL)

\* the dialogs single_func loads from its input file, as line 289 has them
InputData == SplitAll(load_txt(f_text))

\* the positions of the utterances of the input file
InputPositions ==
  LET data == InputData
  IN  UNION {{<<d, k>> : k \in 1..Len(data[d])} : d \in 1..Len(data)}

SeenPositions == {f_seen[n].pos : n \in 1..Len(f_seen)}

\* the utterance at position p as the loop measured it
SeqAt(p) == f_seen[CHOOSE n \in 1..Len(f_seen) : f_seen[n].pos = p].seq

\* `seen` is the input: one entry per utterance of the input file, which is
\* that utterance after the space removal and the optional cleaning
SeenIsInput ==
  LET data == InputData
  IN  /\ SeenPositions = InputPositions
      /\ Len(f_seen) = Cardinality(InputPositions)
      /\ \A n \in 1..Len(f_seen) :
           LET p == f_seen[n].pos
               nosp == Replace(data[p[1]][p[2]], <<" ">>, <<>>)
           IN  f_seen[n].seq =
                 IF f_extra THEN seq_clean(nosp, data_type_of(f_path)) ELSE nosp

C1_Valid(s) == Len(s) >= 1 /\ Len(s) <= max_length /\ ~Contains(s, HTTP)

C1_ValidAt(p) == p \in SeenPositions /\ C1_Valid(SeqAt(p))

\* the maximal contiguous runs of valid utterances of one dialog, as
\* <<d, i, j>>: the utterances i..j of dialog d
C1_MaximalRuns ==
  {e \in {<<p[1], p[2], q[2]>> : p, q \in SeenPositions} :
     /\ <<e[1], e[3]>> \in SeenPositions
     /\ e[2] <= e[3]
     /\ \A k \in e[2]..e[3] : C1_ValidAt(<<e[1], k>>)
     /\ ~C1_ValidAt(<<e[1], e[2] - 1>>)
     /\ ~C1_ValidAt(<<e[1], e[3] + 1>>)}

C1_RunOf(x) == <<x[1].pos[1], x[1].pos[2], x[Len(x)].pos[2]>>

C1_Before(e1, e2) == e1[1] < e2[1] \/ (e1[1] = e2[1] /\ e1[2] < e2[2])

\* C1: the groups of new_data, before the fragments are generated, are
\* exactly the maximal contiguous runs of valid utterances of one input
\* dialog line that hold at least 2 utterances, each once, in the input's
\* order, their utterances in the original order; valid is: after the space
\* removal and the optional cleaning, of length 1..max_length and without
\* "http".
C1_Segmentation ==
  f_pc = "over" =>
    /\ SeenIsInput
    /\ \A r \in 1..Len(f_new_data) :
         LET x == f_new_data[r]
         IN  /\ Len(x) >= 2
             /\ C1_RunOf(x) \in C1_MaximalRuns
             /\ \A m \in 1..Len(x) :
                  /\ x[m].pos = <<x[1].pos[1], x[1].pos[2] + m - 1>>
                  /\ x[m].seq = SeqAt(x[m].pos)
    /\ \A e \in C1_MaximalRuns :
         e[3] - e[2] + 1 >= 2 =>
           \E r \in 1..Len(f_new_data) : C1_RunOf(f_new_data[r]) = e
    /\ \A r1, r2 \in 1..Len(f_new_data) :
         r1 < r2 => C1_Before(C1_RunOf(f_new_data[r1]), C1_RunOf(f_new_data[r2]))

\* a run was kept that an invalid utterance of its dialog ended
C1_Witness ==
  /\ f_pc = "over"
  /\ \E r \in 1..Len(f_new_data) :
       LET e == C1_RunOf(f_new_data[r])
       IN  /\ <<e[1], e[3] + 1>> \in SeenPositions
           /\ ~C1_Valid(SeqAt(<<e[1], e[3] + 1>>))

\* the fragments line 326 takes: <<r, j>> is the fragment of the r-th run
\* that ends at its j-th utterance
C6_Pairs ==
  UNION {{<<r, j>> : j \in {j \in 2..Len(f_new_data[r]) :
                              Len(f_new_data[r][j].seq) >= min_length}} :
         r \in 1..Len(f_new_data)}

C6_Line(r, j) == Join(SEP, [i \in 1..j |-> f_new_data[r][i].seq])

C6_Rank(p) ==
  Cardinality({q \in C6_Pairs : q[1] < p[1] \/ (q[1] = p[1] /\ q[2] <= p[2])})

C6_Count(line) == Cardinality({n \in 1..Len(OutLines) : OutLines[n] = line})

\* C6 as amended: the output is exactly the list, in the order of the runs
\* and of increasing j, of the lines x[0..j] joined with "\t\t" for each run
\* x and each j with 1 <= j < len(x) and len(x[j]) >= min_length: one line
\* for each such (run, j), so that a line which several of them form
\* appears once for each of them.
C6_FragmentsPerPair ==
  f_pc = "over" =>
    /\ Len(OutLines) = Cardinality(C6_Pairs)
    /\ \A p \in C6_Pairs : OutLines[C6_Rank(p)] = C6_Line(p[1], p[2])

\* C6 as stated: the line of every (run, j) is in the output exactly once iff
\* len(x[j]) >= min_length, and the output holds no other line.
C6_ExactlyOnce ==
  f_pc = "over" =>
    /\ \A r \in 1..Len(f_new_data) : \A j \in 2..Len(f_new_data[r]) :
         (C6_Count(C6_Line(r, j)) = 1) <=> (Len(f_new_data[r][j].seq) >= min_length)
    /\ \A n \in 1..Len(OutLines) :
         \E p \in C6_Pairs : OutLines[n] = C6_Line(p[1], p[2])

\* two runs formed the same line, and a fragment was left out for its short
\* last utterance
C6_Witness ==
  /\ f_pc = "over"
  /\ \E n, m \in 1..Len(OutLines) : n < m /\ OutLines[n] = OutLines[m]
  /\ \E r \in 1..Len(f_new_data) : \E j \in 2..Len(f_new_data[r]) :
       Len(f_new_data[r][j].seq) < min_length

\* C7: contain_at being True of every utterance that holds '@' and seq_clean
\* emptying it, with extra_func no output line holds '@'.
C7_NoAtInOutput ==
  (f_pc = "over" /\ f_extra) => \A i \in 1..Len(f_out) : f_out[i] # "@"

\* C8: the result of seq_clean holds no "tm", in any letter case, between
\* two non-alphabetic characters.
C8_NoTmLeft ==
  c_pc = "return" =>
    ~\E i \in 1..(Len(c_out) - 3) :
        /\ c_out[i] \notin Letters
        /\ <<c_out[i+1], c_out[i+2]>> \in {"t", "T"} \X {"m", "M"}
        /\ c_out[i+3] \notin Letters

\* C9: with extra_func, an utterance that is empty after seq_clean ends the
\* run: no output line holds an utterance that came before it and one that
\* came after it in its dialog (each output line being the utterances at
\* its recorded positions).
C9_EmptiedSplitsRun ==
  (f_pc = "over" /\ f_extra) =>
    /\ Len(f_src) = Len(OutLines)
    /\ \A m \in 1..Len(f_src) :
         OutLines[m] = Join(SEP, [i \in 1..Len(f_src[m]) |-> SeqAt(f_src[m][i])])
    /\ \A n \in 1..Len(f_seen) :
         f_seen[n].seq = <<>> =>
           \A m \in 1..Len(f_src) :
             ~\E a, b \in 1..Len(f_src[m]) :
                 /\ f_src[m][a][1] = f_seen[n].pos[1]
                 /\ f_src[m][b][1] = f_seen[n].pos[1]
                 /\ f_src[m][a][2] < f_seen[n].pos[2]
                 /\ f_src[m][b][2] > f_seen[n].pos[2]

\* an utterance that held '@' or "ni ma" was emptied, with an output line
\* from the utterances before it and one from those after it
C9_Witness ==
  /\ f_pc = "over" /\ f_extra
  /\ \E n \in 1..Len(f_seen) :
       /\ f_seen[n].seq = <<>>
       /\ \E m1, m2 \in 1..Len(f_src) :
            /\ \A a \in 1..Len(f_src[m1]) :
                 f_src[m1][a][1] = f_seen[n].pos[1] /\ f_src[m1][a][2] < f_seen[n].pos[2]
            /\ \A b \in 1..Len(f_src[m2]) :
                 f_src[m2][b][1] = f_seen[n].pos[1] /\ f_src[m2][b][2] > f_seen[n].pos[2]

(***************************************************************************)
(* Properties of main and its pool                                         *)
(***************************************************************************)
\* the .txt files there are below indir when main starts
TxtInputs == {q \in DOMAIN fs0 : IsUnder(q, m_indir) /\ EndsWith(q, DOT_TXT)}

TasksOf(q) == {t \in 1..Len(tasks) : tasks[t].path = q}

WritesOf(t) == {w \in 1..Len(writes) : writes[w].task = t}

\* the path of p relative to indir, below outdir
Mirrored(p) == m_outdir \o Tail_(p, Len(m_indir) + 1)

\* C2: the output path of each input file is outdir followed by the file's
\* path relative to indir, and two distinct input files have two distinct
\* output paths.
C2_MirroredTree ==
  m_pc # "walk" =>
    /\ \A i \in 1..Len(paths) : outpaths[i] = Mirrored(paths[i])
    /\ \A i, j \in 1..Len(paths) : paths[i] # paths[j] => outpaths[i] # outpaths[j]

\* C3: no two tasks write the same output file, and when main is over every
\* output file holds what single_func alone gives for the input file of the
\* task that wrote it.
C3_IndependentTasks ==
  /\ \A v, w \in 1..Len(writes) :
       writes[v].task # writes[w].task => writes[v].path # writes[w].path
  /\ m_pc = "over" =>
       \A t \in 1..Len(tasks) :
         tasks[t].st = "done" =>
           fs[tasks[t].outpath] =
             single_func(fs0[tasks[t].path], tasks[t].path, tasks[t].extra_func).out

\* C4: a task whose file raises in single_func has returned from its one
\* call, nothing is written to its outpath, its file has no second task, and
\* when main is over every other task has finished.
C4_ErrorsCaught ==
  \A t \in 1..Len(tasks) :
    tasks[t].st = "error" =>
      /\ tasks[t].calls = 1
      /\ TasksOf(tasks[t].path) = {t}
      /\ \A w \in 1..Len(writes) : writes[w].path # tasks[t].outpath
      /\ m_pc = "over" => \A u \in 1..Len(tasks) : Finished(tasks[u])

\* one task for every .txt file below indir and none for another file; main
\* is over only when every task has finished, with its output written or its
\* error caught
C5_TasksAndJoin ==
  /\ \A t \in 1..Len(tasks) : tasks[t].path \in TxtInputs /\ TasksOf(tasks[t].path) = {t}
  /\ m_pc \in {"join", "over"} => \A q \in TxtInputs : Cardinality(TasksOf(q)) = 1
  /\ m_pc = "over" =>
       \A t \in 1..Len(tasks) :
         /\ Finished(tasks[t])
         /\ tasks[t].calls = 1
         /\ tasks[t].st = "done" <=> WritesOf(t) # {}

\* C5: main submits exactly one single_func task for every file below indir,
\* at any depth, whose name ends with ".txt" and none for any other file;
\* main reaches its final "over" only after every submitted task has
\* finished, with an output written or an error caught; and when main and
\* the workers are scheduled fairly main reaches it.
C5_OneTaskPerFileAndOver == [] C5_TasksAndJoin /\ <>(m_pc = "over")

\* main is over after a tree with a .txt file two directories down and a
\* file that is no .txt: one task wrote its output and one caught an error
C5_Witness ==
  /\ m_pc = "over"
  /\ \E q \in DOMAIN fs0 : ~EndsWith(q, DOT_TXT)
  /\ \E q \in TxtInputs : DirName(DirName(q)) = m_indir
  /\ \E t, u \in 1..Len(tasks) : tasks[t].st = "done" /\ tasks[u].st = "error"
====
